---- MODULE Spec2Model ----
\* Model of the bank_users account service (Django REST framework):
\*   users/models.py       the User record and its field rules
\*   users/serializers.py  UserSerializer: validation, create, update, representation
\*   users/permissions.py  CanManipulateUser
\*   users/views.py        UserViewSet: queryset and permission classes
\* A request is served in steps; each step is one database round trip (the
\* connection is in autocommit mode), so requests interleave between steps.
EXTENDS Integers, FiniteSets, Sequences, TLC

VARIABLES store, next_pk, clock, pc, req, inst, resp

vars == <<store, next_pk, clock, pc, req, inst, resp>>

\* ---------------------------------------------------------------- bounds
\* Highest primary key the sequence hands out (the first pks belong to the
\* accounts provisioned outside the API).
MaxPk == 5
\* Highest value of the wall clock.
MaxClock == 1

\* ------------------------------------------------------------- constants
None == "None"
Anonymous == "AnonymousUser"

EURO == 0
POUND == 1
DOLLAR == 2
YEN == 3
FRANC == 4
CROWN == 5

CURRENCIES ==
  [c \in {EURO, POUND, DOLLAR, YEN, FRANC, CROWN} |->
     CASE c = EURO -> "Euro"
       [] c = POUND -> "Pound Sterling"
       [] c = DOLLAR -> "US Dollar"
       [] c = YEN -> "Yen"
       [] c = FRANC -> "Swiss Franc"
       [] c = CROWN -> "Swedish Crown"]

MANIPULATION_METHODS == {"PUT", "PATCH", "DELETE"}

PERMS_MAP ==
  [m \in MANIPULATION_METHODS |->
     CASE m = "PUT" -> "users.change_user"
       [] m = "PATCH" -> "users.change_user"
       [] m = "DELETE" -> "users.delete_user"]

\* IBAN codes the IBANField validator accepts (the ones the tests use).
IBANS == {"ES9121000418450200051332", "DE89370400440532013000"}

\* The serializer's writable fields and the ones it only reads.
WritableFields ==
  {"username", "password", "first_name", "last_name", "email", "iban",
   "balance", "currency"}

ReadOnlyFields == {"create_ts", "update_ts"}

\* --------------------------------------------------------------- helpers
Without(d, f) == [k \in DOMAIN d \ {f} |-> d[k]]

With(d, f, v) == [k \in DOMAIN d \cup {f} |-> IF k = f THEN v ELSE d[k]]

Merge(d, e) == [k \in DOMAIN d \cup DOMAIN e |-> IF k \in DOMAIN e THEN e[k] ELSE d[k]]

\* make_password: a salted one-way hash, never the plaintext itself; of
\* None, an unusable password.
MakePassword(raw) ==
  CASE raw = None -> "!"
    [] raw = "pw1" -> "pbkdf2_sha256$pw1"
    [] raw = "pw2" -> "pbkdf2_sha256$pw2"
    [] OTHER -> "pbkdf2_sha256$"

\* ------------------------------------------------------------ test data
REQUIRED_DATA ==
  [username |-> "alice", password |-> "pw1", first_name |-> "Ann",
   last_name |-> "Lee", iban |-> "ES9121000418450200051332"]

USER_DATA ==
  Merge(REQUIRED_DATA, [email |-> "test@email.com", balance |-> 1000, currency |-> DOLLAR])

SECOND_USER_REQUIRED_DATA ==
  [username |-> "bob", password |-> "pw2", first_name |-> "Bea",
   last_name |-> "Lee", iban |-> "DE89370400440532013000"]

\* Values a payload supplies for the read-only fields: a time the clock
\* never shows.
Timestamps == [create_ts |-> MaxClock + 100, update_ts |-> MaxClock + 100]

\* Payloads of POST and PUT requests: the tests' payloads, each required
\* field in turn omitted or blanked, a bad IBAN, a bad currency, and the
\* second user's payload colliding with the first on username or on iban,
\* the second user's payload with values for the read-only fields, and
\* the second user's payload for a staff account without iban.
Payloads ==
  {REQUIRED_DATA, USER_DATA, SECOND_USER_REQUIRED_DATA}
  \cup {Without(SECOND_USER_REQUIRED_DATA, f) :
          f \in {"username", "password", "first_name", "last_name", "iban"}}
  \cup {With(SECOND_USER_REQUIRED_DATA, f, "") :
          f \in {"username", "password", "first_name", "last_name", "iban"}}
  \cup {With(SECOND_USER_REQUIRED_DATA, "iban", None),
        With(SECOND_USER_REQUIRED_DATA, "iban", "This is a wrong IBAN"),
        With(SECOND_USER_REQUIRED_DATA, "currency", CROWN + 1),
        With(SECOND_USER_REQUIRED_DATA, "username", "alice"),
        With(SECOND_USER_REQUIRED_DATA, "username", "admin"),
        With(SECOND_USER_REQUIRED_DATA, "iban", REQUIRED_DATA.iban),
        Merge(SECOND_USER_REQUIRED_DATA, Timestamps),
        With(Without(SECOND_USER_REQUIRED_DATA, "iban"), "is_staff", TRUE)}

\* Payloads of PATCH requests: the empty body, single fields, good and bad,
\* values for the read-only fields, and the second user's whole payload.
EmptyBody == [k \in {} |-> None]

PatchPayloads ==
  {EmptyBody,
   [first_name |-> "Bea"], [first_name |-> ""],
   [username |-> "bob"], [username |-> ""],
   [password |-> "pw2"], [password |-> ""],
   [iban |-> "DE89370400440532013000"], [iban |-> ""], [iban |-> None],
   [iban |-> "This is a wrong IBAN"],
   [currency |-> CROWN + 1],
   Timestamps,
   SECOND_USER_REQUIRED_DATA}

\* ------------------------------------------------------------ the model
\* users/models.py: a row of the user table as Model(**kwargs) builds it,
\* with the fields' defaults, before it is saved.
User(pk, kwargs, now) ==
  [id |-> pk,
   username |-> kwargs.username,
   password |-> "",
   first_name |-> kwargs.first_name,
   last_name |-> kwargs.last_name,
   email |-> IF "email" \in DOMAIN kwargs THEN kwargs.email ELSE "",
   iban |-> IF "iban" \in DOMAIN kwargs THEN kwargs.iban ELSE None,
   balance |-> IF "balance" \in DOMAIN kwargs THEN kwargs.balance ELSE 0,
   currency |-> IF "currency" \in DOMAIN kwargs THEN kwargs.currency ELSE EURO,
   is_staff |-> FALSE,
   is_superuser |-> FALSE,
   perms |-> {},
   create_ts |-> now,
   update_ts |-> now]

\* User.clean (run by full_clean(), which the serializer never calls): an
\* account without iban must be staff or superuser.
clean(instance) ==
  IF instance.iban \in {None, ""} /\ ~(instance.is_staff \/ instance.is_superuser)
    THEN "IBAN field is required." ELSE "ok"

\* Accounts provisioned outside the API (createsuperuser, the admin site,
\* the object-permission backend's anonymous row). The permission classes
\* of the view set let only staff accounts use the API, so at least one
\* such row exists before the first request is served.
ProvisionedAccounts ==
  [pk \in 1..3 |->
     CASE pk = 1 ->
            [User(1, [username |-> "admin", first_name |-> "Ad", last_name |-> "Min"], 0)
               EXCEPT !.password = MakePassword("pw1"),
                      !.is_staff = TRUE, !.is_superuser = TRUE]
       [] pk = 2 ->
            [User(2, [username |-> "clerk", first_name |-> "Cl", last_name |-> "Erk"], 0)
               EXCEPT !.password = MakePassword("pw1"),
                      !.is_staff = TRUE, !.perms = {"users.delete_user"}]
       [] pk = 3 ->
            [User(3, [username |-> Anonymous, first_name |-> "", last_name |-> ""], 0)
               EXCEPT !.password = "!"]]

ProvisionedPks == DOMAIN ProvisionedAccounts

\* The request's user: pk 0 is a request without credentials.
AnonymousUser ==
  [id |-> 0, is_authenticated |-> FALSE, is_staff |-> FALSE,
   is_superuser |-> FALSE, perms |-> {}]

RequestUser(rows, pk) ==
  IF pk \in DOMAIN rows
    THEN [id |-> pk, is_authenticated |-> TRUE, is_staff |-> rows[pk].is_staff,
          is_superuser |-> rows[pk].is_superuser, perms |-> rows[pk].perms]
    ELSE AnonymousUser

\* --------------------------------------------------------- permissions
\* rest_framework.permissions.IsAuthenticated / IsAdminUser, the first two
\* permission classes of the view set.
IsAuthenticated(user) == user.is_authenticated

IsAdminUser(user) == user.is_staff

\* request.user.has_perm(perm, obj): a superuser holds every permission,
\* any other user the ones granted to it.
has_perm(user, perm, obj) ==
  user.is_authenticated /\ (user.is_superuser \/ perm \in user.perms)

\* Mutant of has_object_permission: the permission lookup is skipped.
has_object_permission_AllowAll(method, user, obj) == TRUE

\* users/permissions.py: CanManipulateUser.has_object_permission.
has_object_permission(method, user, obj) ==
  method \notin MANIPULATION_METHODS \/ has_perm(user, PERMS_MAP[method], obj)

\* APIView.check_permissions over UserViewSet.permission_classes
\* (CanManipulateUser inherits has_permission, which allows).
check_permissions(user) == IsAuthenticated(user) /\ IsAdminUser(user)

\* Mutant of queryset: exclude(is_staff=False) for exclude(is_staff=True).
queryset_ExcludeCustomers(rows) ==
  {pk \in DOMAIN rows : rows[pk].username # Anonymous /\ rows[pk].is_staff}

\* UserViewSet.queryset: the pks of the rows the view set serves.
queryset(rows) ==
  {pk \in DOMAIN rows : rows[pk].username # Anonymous /\ ~rows[pk].is_staff}

\* ----------------------------------------------------------- validation
\* The unique constraints of the table (username, iban): whether saving
\* `row` would collide with another row. NULL ibans never collide.
UsernameTaken(rows, username, pk) ==
  \E k \in DOMAIN rows : k # pk /\ rows[k].username = username

IbanTaken(rows, iban, pk) ==
  \E k \in DOMAIN rows : k # pk /\ rows[k].iban = iban

\* Mutants of IntegrityError: a table without the unique constraints, and
\* one whose iban column lost its unique constraint.
IntegrityError_NoConstraint(rows, row) == FALSE

IntegrityError_UsernameOnly(rows, row) == UsernameTaken(rows, row.username, row.id)

IntegrityError(rows, row) ==
  \/ UsernameTaken(rows, row.username, row.id)
  \/ (row.iban # None /\ IbanTaken(rows, row.iban, row.id))

\* Mutant of validate_iban: the check is missing.
validate_iban_Missing(value) == "ok"

\* UserSerializer.validate_iban.
validate_iban(value) == IF value = None \/ value = "" THEN "required" ELSE "ok"

\* The serializer field of each model field, run on the request's data:
\* "ok", or the code of the first error. `partial` is TRUE for PATCH; `pk`
\* is the instance's pk (0 on create), which the unique validators exclude.
FieldError(f, data, partial, pk, rows) ==
  IF f \notin DOMAIN data
    THEN IF ~partial /\ f \in {"username", "password", "first_name", "last_name", "iban"}
           THEN "required" ELSE "ok"
    ELSE CASE f = "username" ->
                IF data[f] = "" THEN "blank"
                ELSE IF UsernameTaken(rows, data[f], pk) THEN "unique" ELSE "ok"
           [] f \in {"password", "first_name", "last_name"} ->
                IF data[f] = "" THEN "blank" ELSE "ok"
           [] f = "iban" ->
                IF data[f] = None \/ data[f] = "" THEN validate_iban(data[f])
                ELSE IF data[f] \notin IBANS THEN "invalid"
                ELSE IF IbanTaken(rows, data[f], pk) THEN "unique"
                ELSE validate_iban(data[f])
           [] f = "currency" ->
                IF data[f] \in DOMAIN CURRENCIES THEN "ok" ELSE "invalid_choice"
           [] OTHER -> "ok"

\* Mutant of Errors: first_name and last_name declared blank=True.
Errors_BlankNamesAllowed(data, partial, pk, rows) ==
  LET bad == {f \in WritableFields :
                /\ FieldError(f, data, partial, pk, rows) # "ok"
                /\ ~(/\ f \in {"first_name", "last_name"}
                     /\ FieldError(f, data, partial, pk, rows) = "blank")}
  IN  [f \in bad |-> FieldError(f, data, partial, pk, rows)]

\* serializer.is_valid(): the errors, by field (empty when the data is valid).
Errors(data, partial, pk, rows) ==
  LET bad == {f \in WritableFields : FieldError(f, data, partial, pk, rows) # "ok"}
  IN  [f \in bad |-> FieldError(f, data, partial, pk, rows)]

\* Mutant of validated_data: create_ts and update_ts are not read-only.
validated_data_WithReadOnly(data) ==
  [f \in DOMAIN data \cap (WritableFields \cup ReadOnlyFields) |-> data[f]]

\* serializer.validated_data: the writable fields the request supplied.
validated_data(data) == [f \in DOMAIN data \cap WritableFields |-> data[f]]

\* ------------------------------------------------------ representation
\* DateTimeField.to_representation: ISO-8601 in UTC, "Z" suffix.
isoformat(ts) == <<"2020-01-01T12:00:00", ts, "Z">>

\* Mutant of get_currency_display: the enumeration code, not its label.
get_currency_display_Code(instance) == ToString(instance.currency)

\* Model.get_currency_display(): the label of the currency's code.
get_currency_display(instance) == CURRENCIES[instance.currency]

\* Mutant of to_representation: the password is not write-only.
to_representation_WithPassword(instance) ==
  [username |-> instance.username,
   password |-> instance.password,
   first_name |-> instance.first_name,
   last_name |-> instance.last_name,
   email |-> instance.email,
   iban |-> instance.iban,
   balance |-> instance.balance,
   currency |-> get_currency_display(instance),
   create_ts |-> isoformat(instance.create_ts),
   update_ts |-> isoformat(instance.update_ts)]

\* UserSerializer.to_representation: the serializer's fields but the
\* write-only password, the currency as its display label.
to_representation(instance) ==
  [username |-> instance.username,
   first_name |-> instance.first_name,
   last_name |-> instance.last_name,
   email |-> instance.email,
   iban |-> instance.iban,
   balance |-> instance.balance,
   currency |-> get_currency_display(instance),
   create_ts |-> isoformat(instance.create_ts),
   update_ts |-> isoformat(instance.update_ts)]

\* The list response: the queryset's rows in pk order.
RECURSIVE ListData(_, _)
ListData(rows, pks) ==
  IF pks = {} THEN <<>>
  ELSE LET pk == CHOOSE k \in pks : \A j \in pks : k <= j
       IN  <<to_representation(rows[pk])>> \o ListData(rows, pks \ {pk})

\* ------------------------------------------------------------- the state
\* store    the user table: pk -> row
\* next_pk  the pk sequence of the table
\* clock    the wall clock (timezone.now())
\* pc       where each client's request stands
\* req      each client's request: method, user (pk, 0 without credentials),
\*          the pk of the URL (0 for the list URL), the body
\* inst     the model instance the request holds in memory
\* resp     each client's last response: status and data
Clients == {1, 2}

NoRequest == [method |-> "", user |-> 0, pk |-> 0, data |-> EmptyBody]

NoInstance == [id |-> 0]

NoResponse == [status |-> 0, data |-> EmptyBody]

Init ==
  /\ store = ProvisionedAccounts
  /\ next_pk = Cardinality(ProvisionedPks) + 1
  /\ clock = 0
  /\ pc = [p \in Clients |-> "idle"]
  /\ req = [p \in Clients |-> NoRequest]
  /\ inst = [p \in Clients |-> NoInstance]
  /\ resp = [p \in Clients |-> NoResponse]

\* The users a request can come from: nobody (0), or an account that can log in.
Callers(rows) == {0} \cup {pk \in DOMAIN rows : rows[pk].username # Anonymous}

\* timezone.now(): the clock may have advanced since it was last read.
Now == {t \in {clock, clock + 1} : t <= MaxClock}

Ready(p) == pc[p] = "idle"

\* The view returns a response; the request is over.
Reply(p, request, instance, status, data) ==
  /\ pc' = [pc EXCEPT ![p] = "done"]
  /\ req' = [req EXCEPT ![p] = request]
  /\ inst' = [inst EXCEPT ![p] = instance]
  /\ resp' = [resp EXCEPT ![p] = [status |-> status, data |-> data]]

\* A response of a view that holds no instance (a refusal, a list, a delete).
Respond(p, request, status, data) == Reply(p, request, NoInstance, status, data)

\* The view goes on to the next database round trip of the request.
Proceed(p, request, step, instance) ==
  /\ pc' = [pc EXCEPT ![p] = step]
  /\ req' = [req EXCEPT ![p] = request]
  /\ inst' = [inst EXCEPT ![p] = instance]
  /\ resp' = [resp EXCEPT ![p] = NoResponse]

Forbidden == [detail |-> "permission_denied"]

NotFound == [detail |-> "not_found"]

ServerError == [detail |-> "IntegrityError"]

\* Model.save() of an instance that has a pk: UPDATE the row; when no row
\* has that pk, INSERT it. auto_now stamps update_ts, auto_now_add stamps
\* create_ts on INSERT only.
save(rows, instance, now) ==
  IF instance.id \in DOMAIN rows
    THEN [instance EXCEPT !.update_ts = now]
    ELSE [instance EXCEPT !.create_ts = now, !.update_ts = now]

Put(rows, row) ==
  [pk \in DOMAIN rows \cup {row.id} |-> IF pk = row.id THEN row ELSE rows[pk]]

\* Mutant of SetAttrs: the username is never set on an existing instance.
SetAttrs_KeepsUsername(instance, data) ==
  Merge(instance, Without(Without(validated_data(data), "password"), "username"))

\* UserSerializer.update: setattr of every validated field but the password.
SetAttrs(instance, data) ==
  Merge(instance, Without(validated_data(data), "password"))

\* set_password on the instance in memory.
set_password(instance, raw) == [instance EXCEPT !.password = MakePassword(raw)]

\* UserSerializer.update: validated_data.pop('password', None).
pop_password(data) == IF "password" \in DOMAIN data THEN data.password ELSE None

\* Mutant of password_given: the `if password:` test is dropped.
password_given_Always(data) == TRUE

\* UserSerializer.update: `if password:`.
password_given(data) == pop_password(data) \notin {None, ""}

\* A request refused before serializer.is_valid() never has its body read:
\* one body stands for all of them.
BodyRead(d, read) == read \/ d = SECOND_USER_REQUIRED_DATA

\* ------------------------------------------------------------ the views
\* GET /users/
List(p, users) ==
  /\ Ready(p)
  /\ \E u \in users \cap Callers(store) :
       LET user == RequestUser(store, u)
           request == [method |-> "GET", user |-> u, pk |-> 0, data |-> EmptyBody]
       IN  IF ~check_permissions(user)
             THEN Respond(p, request, 403, Forbidden)
             ELSE Respond(p, request, 200, ListData(store, queryset(store)))
  /\ UNCHANGED <<store, next_pk, clock>>

\* GET /users/<pk>/
Retrieve(p, users, pks) ==
  /\ Ready(p)
  /\ \E u \in users \cap Callers(store), pk \in pks :
       LET user == RequestUser(store, u)
           request == [method |-> "GET", user |-> u, pk |-> pk, data |-> EmptyBody]
       IN  IF ~check_permissions(user)
             THEN Respond(p, request, 403, Forbidden)
           ELSE IF pk \notin queryset(store)
             THEN Respond(p, request, 404, NotFound)
           ELSE IF ~has_object_permission("GET", user, store[pk])
             THEN Respond(p, request, 403, Forbidden)
           ELSE Respond(p, request, 200, to_representation(store[pk]))
  /\ UNCHANGED <<store, next_pk, clock>>

\* DELETE /users/<pk>/
Destroy(p, users, pks) ==
  /\ Ready(p)
  /\ \E u \in users \cap Callers(store), pk \in pks :
       LET user == RequestUser(store, u)
           request == [method |-> "DELETE", user |-> u, pk |-> pk, data |-> EmptyBody]
       IN  IF ~check_permissions(user)
             THEN Respond(p, request, 403, Forbidden) /\ UNCHANGED store
           ELSE IF pk \notin queryset(store)
             THEN Respond(p, request, 404, NotFound) /\ UNCHANGED store
           ELSE IF ~has_object_permission("DELETE", user, store[pk])
             THEN Respond(p, request, 403, Forbidden) /\ UNCHANGED store
           ELSE /\ Respond(p, request, 204, EmptyBody)
                /\ store' = [k \in DOMAIN store \ {pk} |-> store[k]]
  /\ UNCHANGED <<next_pk, clock>>

\* POST /users/: permissions, then serializer.is_valid().
Create(p, users, bodies) ==
  /\ Ready(p)
  /\ \E u \in users \cap Callers(store), d \in bodies :
       LET user == RequestUser(store, u)
           request == [method |-> "POST", user |-> u, pk |-> 0, data |-> d]
           errors == Errors(d, FALSE, 0, store)
       IN  /\ BodyRead(d, check_permissions(user))
           /\ IF ~check_permissions(user)
                THEN Respond(p, request, 403, Forbidden)
              ELSE IF DOMAIN errors # {}
                THEN Respond(p, request, 400, errors)
              ELSE next_pk <= MaxPk /\ Proceed(p, request, "insert", NoInstance)
  /\ UNCHANGED <<store, next_pk, clock>>

\* UserSerializer.create, first half: super().create() inserts the row
\* without the password.
Insert(p) ==
  /\ pc[p] = "insert"
  /\ \E now \in Now :
       LET kwargs == Without(validated_data(req[p].data), "password")
           row == User(next_pk, kwargs, now)
       IN  /\ clock' = now
           /\ next_pk' = next_pk + 1
           /\ IF IntegrityError(store, row)
                THEN Respond(p, req[p], 500, ServerError) /\ UNCHANGED store
                ELSE Proceed(p, req[p], "set_password", row) /\ store' = Put(store, row)

\* PUT and PATCH /users/<pk>/: permissions, get_object(), is_valid().
BeginUpdate(p, method, users, pks, bodies) ==
  /\ Ready(p)
  /\ \E u \in users \cap Callers(store), pk \in pks, d \in bodies :
       LET user == RequestUser(store, u)
           request == [method |-> method, user |-> u, pk |-> pk, data |-> d]
           errors == Errors(d, method = "PATCH", pk, store)
       IN  /\ BodyRead(d, /\ check_permissions(user)
                          /\ pk \in queryset(store)
                          /\ has_object_permission(method, user, store[pk]))
           /\ IF ~check_permissions(user)
                THEN Respond(p, request, 403, Forbidden)
              ELSE IF pk \notin queryset(store)
                THEN Respond(p, request, 404, NotFound)
              ELSE IF ~has_object_permission(method, user, store[pk])
                THEN Respond(p, request, 403, Forbidden)
              ELSE IF DOMAIN errors # {}
                THEN Respond(p, request, 400, errors)
              ELSE Proceed(p, request, "update", store[pk])
  /\ UNCHANGED <<store, next_pk, clock>>

Update(p, users, pks, bodies) == BeginUpdate(p, "PUT", users, pks, bodies)

PartialUpdate(p, users, pks, bodies) == BeginUpdate(p, "PATCH", users, pks, bodies)

\* UserSerializer.update, first half: super().update() sets the validated
\* attributes on the instance and saves it.
PerformUpdate(p) ==
  /\ pc[p] = "update"
  /\ \E now \in Now :
       LET row == save(store, SetAttrs(inst[p], req[p].data), now)
       IN  /\ clock' = now
           /\ IF IntegrityError(store, row)
                THEN Reply(p, req[p], inst[p], 500, ServerError) /\ UNCHANGED store
                ELSE /\ store' = Put(store, row)
                     /\ IF password_given(req[p].data)
                          THEN Proceed(p, req[p], "set_password", row)
                          ELSE Reply(p, req[p], row, 200, to_representation(row))
  /\ UNCHANGED next_pk

\* UserSerializer.create and update, second half: set_password, save().
SavePassword(p) ==
  /\ pc[p] = "set_password"
  /\ \E now \in Now :
       LET row == save(store, set_password(inst[p], pop_password(req[p].data)), now)
       IN  /\ clock' = now
           /\ IF IntegrityError(store, row)
                THEN Reply(p, req[p], inst[p], 500, ServerError) /\ UNCHANGED store
                ELSE /\ store' = Put(store, row)
                     /\ Reply(p, req[p], row, IF req[p].method = "POST" THEN 201 ELSE 200,
                              to_representation(row))
  /\ UNCHANGED next_pk

\* The client has read the response; its connection is free for the next request.
Close(p) ==
  /\ pc[p] = "done"
  /\ pc' = [pc EXCEPT ![p] = "idle"]
  /\ req' = [req EXCEPT ![p] = NoRequest]
  /\ inst' = [inst EXCEPT ![p] = NoInstance]
  /\ resp' = [resp EXCEPT ![p] = NoResponse]
  /\ UNCHANGED <<store, next_pk, clock>>

\* One client at a time, any user, every payload.
Next ==
  \E p \in {1} :
    \/ List(p, 0..MaxPk)
    \/ Retrieve(p, 0..MaxPk, 1..MaxPk)
    \/ Destroy(p, 0..MaxPk, 1..MaxPk)
    \/ Create(p, 0..MaxPk, Payloads)
    \/ Insert(p)
    \/ Update(p, 0..MaxPk, 1..MaxPk, Payloads)
    \/ PartialUpdate(p, 0..MaxPk, 1..MaxPk, PatchPayloads)
    \/ PerformUpdate(p)
    \/ SavePassword(p)
    \/ Close(p)

Spec == Init /\ [][Next]_vars

\* Two clients at once, both logged in as the superuser, creating either
\* user, replacing a customer by the second user and deleting customers:
\* their requests interleave between database round trips.
RaceUsers == {1}

\* The pks their requests address: the customers' (stored or not).
RacePks == (Cardinality(ProvisionedPks) + 1)..MaxPk

RaceBodies == {REQUIRED_DATA, SECOND_USER_REQUIRED_DATA}

NextRace ==
  \E p \in Clients :
    \/ Destroy(p, RaceUsers, RacePks)
    \/ Create(p, RaceUsers, RaceBodies)
    \/ Insert(p)
    \/ Update(p, RaceUsers, RacePks, {SECOND_USER_REQUIRED_DATA})
    \/ PerformUpdate(p)
    \/ SavePassword(p)
    \/ Close(p)

SpecRace == Init /\ [][NextRace]_vars

\* Two clients, one write request each, started on a table that holds the
\* provisioned accounts alone or with the first user.
FirstUser ==
  set_password(User(Cardinality(ProvisionedPks) + 1, Without(REQUIRED_DATA, "password"), 0),
               REQUIRED_DATA.password)

InitDuel ==
  /\ \/ store = ProvisionedAccounts /\ next_pk = Cardinality(ProvisionedPks) + 1
     \/ store = Put(ProvisionedAccounts, FirstUser) /\ next_pk = FirstUser.id + 1
  /\ clock = 0
  /\ pc = [p \in Clients |-> "idle"]
  /\ req = [p \in Clients |-> NoRequest]
  /\ inst = [p \in Clients |-> NoInstance]
  /\ resp = [p \in Clients |-> NoResponse]

DuelBodies ==
  {REQUIRED_DATA, USER_DATA, SECOND_USER_REQUIRED_DATA,
   With(SECOND_USER_REQUIRED_DATA, "username", REQUIRED_DATA.username),
   With(SECOND_USER_REQUIRED_DATA, "iban", REQUIRED_DATA.iban)}

DuelPatches == {[username |-> "bob"], [iban |-> "DE89370400440532013000"]}

NextDuel ==
  \E p \in Clients :
    \/ Create(p, RaceUsers, DuelBodies)
    \/ Insert(p)
    \/ Update(p, RaceUsers, RacePks, DuelBodies)
    \/ PartialUpdate(p, RaceUsers, RacePks, DuelPatches)
    \/ PerformUpdate(p)
    \/ SavePassword(p)

SpecDuel == InitDuel /\ [][NextDuel]_vars

\* ================================================================ claims
CustomerPks == DOMAIN store \ ProvisionedPks

Done(p) == pc[p] = "done"

Succeeded(p) == Done(p) /\ resp[p].status \in {200, 201, 204}

\* The write of p's request raised IntegrityError.
StoreRefused(p) == Done(p) /\ resp[p].status = 500

Collide(d, e) ==
  \/ "username" \in DOMAIN d \cap DOMAIN e /\ d.username = e.username
  \/ "iban" \in DOMAIN d \cap DOMAIN e /\ d.iban = e.iban

Duel ==
  /\ \A p \in Clients : Succeeded(p) \/ StoreRefused(p)
  /\ Collide(req[1].data, req[2].data)
  /\ ~(inst[1].id = inst[2].id /\ inst[1].id # 0)

C2_ExactlyOneWins ==
  Duel =>
    /\ \E p \in Clients : Succeeded(p) /\ \A q \in Clients \ {p} : StoreRefused(q)
    /\ \A d \in {req[1].data, req[2].data} :
         /\ "username" \in DOMAIN d =>
              Cardinality({k \in DOMAIN store : store[k].username = d.username}) <= 1
         /\ "iban" \in DOMAIN d =>
              Cardinality({k \in DOMAIN store : store[k].iban = d.iban}) <= 1

\* A create and a replace raced for the second user's keys; one of them won.
C2_Witness ==
  /\ Duel
  /\ {req[1].method, req[2].method} = {"POST", "PUT"}
  /\ \E p \in Clients : StoreRefused(p)

\* C3: every create, replace or patch that collides with another row on
\* username or iban is answered 400, whether the serializer's validators
\* or only the table found the collision; it is never a server failure.
Collided(p) ==
  /\ Done(p)
  /\ req[p].method \in {"POST", "PUT", "PATCH"}
  /\ \/ StoreRefused(p)
     \/ /\ resp[p].status = 400
        /\ \E f \in DOMAIN resp[p].data : resp[p].data[f] = "unique"

C3_CollisionIs400 == \A p \in Clients : Collided(p) => resp[p].status = 400

\* C4: every create, replace or patch that omits iban (create, replace) or
\* supplies it blank, null or invalid is answered 400 with an error on iban
\* and changes nothing; so every customer row written through the API has
\* a valid iban.
BadIban(method, d) ==
  IF "iban" \in DOMAIN d THEN d.iban \notin IBANS ELSE method \in {"POST", "PUT"}

C4_RowsHaveIban ==
  /\ \A pk \in CustomerPks :
       ~(store[pk].is_staff \/ store[pk].is_superuser) => store[pk].iban \in IBANS
  /\ \A p \in Clients :
       (/\ Done(p)
        /\ req[p].method \in {"POST", "PUT", "PATCH"}
        /\ BadIban(req[p].method, req[p].data)
        /\ resp[p].status \notin {403, 404})
       => resp[p].status = 400 /\ "iban" \in DOMAIN resp[p].data

C5_CredentialAlwaysHashed ==
  \A pk \in CustomerPks :
    /\ store[pk].password # ""
    /\ store[pk].password \notin {REQUIRED_DATA.password, SECOND_USER_REQUIRED_DATA.password}

\* C6: no response of create, list, retrieve, replace or patch carries the
\* password, and list and retrieve responses are the same for any two
\* tables that differ in the password column alone.
OtherPasswords(rows) == [pk \in DOMAIN rows |-> [rows[pk] EXCEPT !.password = "other"]]

C6_NoPasswordInResponses ==
  \A p \in Clients :
    (Done(p) /\ resp[p].status \in {200, 201}) =>
      IF req[p].method = "GET" /\ req[p].pk = 0
        THEN /\ \A i \in 1..Len(resp[p].data) : "password" \notin DOMAIN resp[p].data[i]
             /\ resp[p].data
                  = ListData(OtherPasswords(store), queryset(OtherPasswords(store)))
        ELSE /\ "password" \notin DOMAIN resp[p].data
             /\ req[p].method = "GET" =>
                  resp[p].data = to_representation(OtherPasswords(store)[req[p].pk])

\* A list response with two customers, and a retrieve response.
C6_Witness ==
  \E p \in Clients :
    /\ Done(p)
    /\ req[p].method = "GET"
    /\ resp[p].status = 200
    /\ req[p].pk = 0
    /\ Len(resp[p].data) = 2

\* C7: a replace, patch or delete changes the table only when its user is
\* authenticated, is staff and holds the permission of the method
\* (change_user, delete_user); from any other user it is refused and the
\* table stays as it was.
Privileged(request) ==
  /\ request.user \in DOMAIN store
  /\ store[request.user].is_staff
  /\ \/ store[request.user].is_superuser
     \/ PERMS_MAP[request.method] \in store[request.user].perms

C8_ReadNeedsOnlyAuthentication ==
  \A p \in Clients :
    (Done(p) /\ req[p].method = "GET" /\ req[p].user # 0) => resp[p].status # 403

\* C9: a create request with a valid payload is authorized for a user
\* without staff status, and for a request without credentials: it is
\* answered 201.
C9_OpenRegistration ==
  \A p \in Clients :
    (/\ Done(p)
     /\ req[p].method = "POST"
     /\ ~(req[p].user \in DOMAIN store /\ store[req[p].user].is_staff)
     /\ DOMAIN Errors(req[p].data, FALSE, 0, store) = {})
    => resp[p].status = 201

\* C10, as claimed: a replace, patch or delete by a user without the
\* privilege on a row that is in the table is answered 403, never 404; 404
\* is answered only when the table holds no row with the pk.
C10_NotFoundOnlyWhenAbsent ==
  \A p \in Clients :
    (Done(p) /\ req[p].method \in MANIPULATION_METHODS) =>
      /\ (~Privileged(req[p]) /\ req[p].pk \in DOMAIN store) => resp[p].status = 403
      /\ resp[p].status = 404 => req[p].pk \notin DOMAIN store

\* C10, amended: the same with "a row the view set serves" (a stored row
\* that is not staff and is not named AnonymousUser) for "a row in the table".
Served(pk) ==
  /\ pk \in DOMAIN store
  /\ ~store[pk].is_staff
  /\ store[pk].username # Anonymous

C10_NotFoundOnlyWhenNotServed ==
  \A p \in Clients :
    (Done(p) /\ req[p].method \in MANIPULATION_METHODS) =>
      /\ (~Privileged(req[p]) /\ Served(req[p].pk)) => resp[p].status = 403
      /\ resp[p].status = 404 => ~Served(req[p].pk)

\* The superuser's delete of a staff row, which is in the table, was
\* answered 404 while a customer was stored.
C10_Witness ==
  \E p \in Clients :
    /\ Done(p)
    /\ req[p].method = "DELETE"
    /\ req[p].pk \in DOMAIN store
    /\ ~Served(req[p].pk)
    /\ Privileged(req[p])
    /\ resp[p].status = 404
    /\ CustomerPks # {}

\* C11: a successful patch changes the fields of its payload and update_ts
\* and nothing else: every other field of the row (the password too, when
\* the payload has none) and every other row keep their stored values; a
\* patch with an empty payload is answered 200, changes update_ts alone
\* and moves it beyond its previous value.
Untouched(old, new, changed) ==
  /\ DOMAIN new = DOMAIN old
  /\ \A f \in DOMAIN old \ changed : new[f] = old[f]

OtherRowsKept(pk) ==
  /\ DOMAIN store' = DOMAIN store
  /\ \A k \in DOMAIN store \ {pk} : store'[k] = store[k]

PatchFrame(p) ==
  LET pk == req[p].pk
      d == req[p].data
      supplied == (DOMAIN d \cap WritableFields) \ {"password"}
  IN  /\ (pc[p] = "update" /\ pc'[p] = "done" /\ resp'[p].status = 200) =>
           /\ pk \in DOMAIN store
           /\ OtherRowsKept(pk)
           /\ Untouched(store[pk], store'[pk], supplied \cup {"update_ts"})
           /\ \A f \in supplied : store'[pk][f] = d[f]
           /\ d = EmptyBody => store'[pk].update_ts > store[pk].update_ts
      /\ (pc[p] = "update" /\ pc'[p] = "set_password") =>
           /\ pk \in DOMAIN store
           /\ OtherRowsKept(pk)
           /\ Untouched(store[pk], store'[pk], supplied \cup {"update_ts"})
           /\ \A f \in supplied : store'[pk][f] = d[f]
      /\ (pc[p] = "set_password" /\ pc'[p] = "done" /\ resp'[p].status = 200) =>
           /\ pk \in DOMAIN store
           /\ OtherRowsKept(pk)
           /\ Untouched(store[pk], store'[pk], {"password", "update_ts"})
           /\ store'[pk].password = MakePassword(d.password)
      /\ (pc[p] = "idle" /\ pc'[p] # "idle" /\ req'[p].data = EmptyBody
          /\ Privileged(req'[p]) /\ Served(req'[p].pk)) => pc'[p] = "update"

C11_PatchFrame ==
  [][\A p \in Clients : req'[p].method = "PATCH" => PatchFrame(p)]_vars

\* C12: a replace or patch with a payload that fails validation (a replace
\* without username, password, first_name, last_name or iban; one of them
\* blank; a username or iban another row has; an invalid iban) is answered
\* 400 once the user is permitted and the row found, and a replace or patch
\* answered 400 leaves the whole table, update_ts and password included, as
\* it was.
Invalid(method, d, pk) ==
  LET required == {"username", "password", "first_name", "last_name", "iban"}
  IN  \/ method = "PUT" /\ required \ DOMAIN d # {}
      \/ \E f \in required \cap DOMAIN d : d[f] = ""
      \/ "username" \in DOMAIN d /\ \E k \in DOMAIN store \ {pk} : store[k].username = d.username
      \/ "iban" \in DOMAIN d /\ \E k \in DOMAIN store \ {pk} : store[k].iban = d.iban
      \/ "iban" \in DOMAIN d /\ d.iban \notin IBANS

C12_RejectedUpdateChangesNothing ==
  [][\A p \in Clients :
       (pc[p] = "idle" /\ pc'[p] # "idle" /\ req'[p].method \in {"PUT", "PATCH"}) =>
         /\ resp'[p].status = 400 => store' = store
         /\ Invalid(req'[p].method, req'[p].data, req'[p].pk) =>
              /\ pc'[p] = "done"
              /\ resp'[p].status \in {400, 403, 404}
              /\ store' = store
         /\ (/\ Invalid(req'[p].method, req'[p].data, req'[p].pk)
             /\ Privileged(req'[p])
             /\ Served(req'[p].pk)) => resp'[p].status = 400]_vars

\* A replace that blanks the first name of a stored customer was answered
\* 400, and the row still has the timestamps of its creation.
C12_Witness ==
  \E p \in Clients :
    /\ Done(p)
    /\ req[p].method = "PUT"
    /\ req[p].pk \in CustomerPks
    /\ resp[p].status = 400
    /\ DOMAIN resp[p].data = {"first_name"}
    /\ store[req[p].pk].update_ts = store[req[p].pk].create_ts

\* C13, as claimed: a replace or a patch that omits the password and is
\* otherwise valid is accepted, and leaves the row's password as it was.
OmitsPassword(method, d, pk) ==
  /\ "password" \notin DOMAIN d
  /\ DOMAIN Errors(With(d, "password", "pw1"), method = "PATCH", pk, store) = {}

Accepts(p, methods) ==
  (/\ pc[p] = "idle"
   /\ pc'[p] # "idle"
   /\ req'[p].method \in methods
   /\ OmitsPassword(req'[p].method, req'[p].data, req'[p].pk)
   /\ Privileged(req'[p])
   /\ Served(req'[p].pk))
  => pc'[p] = "update"

KeepsPassword(p) ==
  (/\ pc[p] = "update"
   /\ pc'[p] # "update"
   /\ "password" \notin DOMAIN req[p].data)
  => /\ pc'[p] = "done"
     /\ resp'[p].status = 200
     /\ req[p].pk \in DOMAIN store'
     /\ store'[req[p].pk].password = store[req[p].pk].password

C14_CreatedEqualsUpdated ==
  \A p \in Clients :
    (Done(p) /\ req[p].method = "POST" /\ resp[p].status = 201) =>
      /\ inst[p].id \in DOMAIN store
      /\ store[inst[p].id].create_ts = store[inst[p].id].update_ts
      /\ resp[p].data.create_ts = resp[p].data.update_ts

\* C15: create_ts is set when the row is inserted and no replace or patch,
\* accepted or rejected, changes it afterwards, whatever its payload says
\* about create_ts and update_ts.
C15_CreatedAtImmutable ==
  [][/\ \A pk \in DOMAIN store \cap DOMAIN store' :
          store'[pk].create_ts = store[pk].create_ts
     /\ \A pk \in DOMAIN store' \ DOMAIN store :
          store'[pk].create_ts = clock']_vars

\* A patch that supplies create_ts and update_ts was answered 200; the
\* row was written later than it was created and kept its create_ts.
C15_Witness ==
  \E p \in Clients :
    /\ Done(p)
    /\ req[p].method = "PATCH"
    /\ req[p].data = Timestamps
    /\ resp[p].status = 200
    /\ req[p].pk \in CustomerPks
    /\ store[req[p].pk].create_ts < store[req[p].pk].update_ts

\* C16, as claimed: no replace or patch changes the username of a stored row.
C16_UsernameImmutable ==
  [][\A pk \in DOMAIN store \cap DOMAIN store' :
       store'[pk].username = store[pk].username]_vars

\* C16, amended: the username is a unique key that a replace or patch may
\* change. Every write of an accepted replace or patch stores, as the
\* row's username, the username its payload supplies (non-empty, held by
\* no other row) or, when the payload of a patch has none, the username
\* the request read.
C16_UsernameSetAsSupplied ==
  [][\A p \in Clients :
       (/\ pc[p] \in {"update", "set_password"}
        /\ pc'[p] # pc[p]
        /\ req[p].method \in {"PUT", "PATCH"}
        /\ ~(pc'[p] = "done" /\ resp'[p].status = 500))
       => /\ req[p].pk \in DOMAIN store'
          /\ store'[req[p].pk].username
               = IF "username" \in DOMAIN req[p].data
                   THEN req[p].data.username ELSE inst[p].username
          /\ store'[req[p].pk].username # ""
          /\ \A k \in DOMAIN store' \ {req[p].pk} :
               store'[k].username # store'[req[p].pk].username]_vars

\* A patch gave the customer created as alice the username bob.
C16_Witness ==
  \E p \in Clients :
    /\ Done(p)
    /\ req[p].method = "PATCH"
    /\ req[p].data = [username |-> "bob"]
    /\ resp[p].status = 200
    /\ req[p].pk \in CustomerPks
    /\ store[req[p].pk].username = "bob"
    /\ store[req[p].pk].first_name = REQUIRED_DATA.first_name

\* C17: once a delete has been answered 204, the table holds no row with
\* the pk it deleted, in that state and in every later one, whatever
\* create, replace or patch on that row was in flight when the delete ran.
\* (pks are never handed out twice, and the client that deleted is still
\* holding its response.)
C17_DeletedStaysDeleted ==
  \A p \in Clients :
    (Done(p) /\ req[p].method = "DELETE" /\ resp[p].status = 204) =>
      req[p].pk \notin DOMAIN store

\* C18: every retrieve, replace, patch or delete addressed to a pk that no
\* row has is answered 404 and leaves the table as it was.
C18_AbsentIs404 ==
  [][\A p \in Clients :
       (/\ pc[p] = "idle"
        /\ pc'[p] # "idle"
        /\ req'[p].method \in {"GET", "PUT", "PATCH", "DELETE"}
        /\ req'[p].pk # 0
        /\ req'[p].pk \notin DOMAIN store)
       => /\ pc'[p] = "done"
          /\ resp'[p].status = 404
          /\ store' = store]_vars

\* C19: creating an account with an elevated role (is_staff or
\* is_superuser) succeeds without iban when the other required fields are
\* valid: the request, from a caller who may create, is answered 201.
C19_ElevatedCreateWithoutIban ==
  \A p \in Clients :
    (/\ Done(p)
     /\ req[p].method = "POST"
     /\ "is_staff" \in DOMAIN req[p].data
     /\ req[p].data.is_staff
     /\ "iban" \notin DOMAIN req[p].data
     /\ clean([User(0, req[p].data, clock) EXCEPT !.is_staff = TRUE]) = "ok"
     /\ check_permissions(RequestUser(store, req[p].user))
     /\ DOMAIN Errors(req[p].data, FALSE, 0, store) \subseteq {"iban"})
    => resp[p].status = 201

\* C20: a create answered 201 whose payload has no email, balance or
\* currency stores email '', balance 0 and currency EURO, and its response
\* shows the currency as the label 'Euro', not as the code.
C20_CreateDefaults ==
  \A p \in Clients :
    (/\ Done(p)
     /\ req[p].method = "POST"
     /\ resp[p].status = 201
     /\ DOMAIN req[p].data \cap {"email", "balance", "currency"} = {})
    => /\ inst[p].id \in DOMAIN store
       /\ store[inst[p].id].email = ""
       /\ store[inst[p].id].balance = 0
       /\ store[inst[p].id].currency = EURO
       /\ resp[p].data.email = ""
       /\ resp[p].data.balance = 0
       /\ resp[p].data.currency = "Euro"

\* The first user was created from the required fields alone.
C20_Witness ==
  \E p \in Clients :
    /\ Done(p)
    /\ req[p].method = "POST"
    /\ req[p].data = REQUIRED_DATA
    /\ resp[p].status = 201
    /\ store[inst[p].id].username = REQUIRED_DATA.username

\* C21: the write of a successful replace leaves email, balance and
\* currency, when its payload omits them, at the values the row had stored;
\* it does not put them back to their defaults.
C21_ReplaceKeepsOmittedOptionals ==
  [][\A p \in Clients :
       (/\ pc[p] = "update"
        /\ pc'[p] # "update"
        /\ req[p].method = "PUT"
        /\ req[p].pk \in DOMAIN store
        /\ ~(pc'[p] = "done" /\ resp'[p].status = 500))
       => /\ req[p].pk \in DOMAIN store'
          /\ \A f \in {"email", "balance", "currency"} \ DOMAIN req[p].data :
               store'[req[p].pk][f] = store[req[p].pk][f]]_vars

\* C22: when two patches of one row that supply disjoint sets of fields
\* have both been answered 200, in whatever order their reads and writes
\* interleaved, the row holds the values of both: neither wrote a stale
\* value over a field it did not supply.
C22_DisjointPatchesBothApply ==
  (/\ \A p \in Clients : Done(p) /\ req[p].method = "PATCH" /\ resp[p].status = 200
   /\ req[1].pk = req[2].pk
   /\ DOMAIN req[1].data \cap DOMAIN req[2].data = {})
  => /\ req[1].pk \in DOMAIN store
     /\ \A p \in Clients :
          \A f \in (DOMAIN req[p].data \cap WritableFields) \ {"password"} :
            store[req[p].pk][f] = req[p].data[f]

\* C23: a stored row that is staff, or is named AnonymousUser, is in no
\* list response, and every retrieve, replace, patch or delete addressed
\* to its pk is answered 404 and leaves the table as it was, whoever the
\* caller is.
Hidden(pk) ==
  /\ pk \in DOMAIN store
  /\ store[pk].is_staff \/ store[pk].username = Anonymous

HiddenRowsAre404(p) ==
  (pc[p] = "idle" /\ pc'[p] # "idle") =>
    /\ (req'[p].method = "GET" /\ req'[p].pk = 0 /\ resp'[p].status = 200) =>
         \A i \in 1..Len(resp'[p].data) :
           \A k \in DOMAIN store :
             Hidden(k) => resp'[p].data[i].username # store[k].username
    /\ (/\ req'[p].method \in {"GET", "PUT", "PATCH", "DELETE"}
        /\ req'[p].pk # 0
        /\ Hidden(req'[p].pk))
       => /\ pc'[p] = "done"
          /\ resp'[p].status = 404
          /\ store' = store

C23_HiddenRowsAre404 == [][\A p \in Clients : HiddenRowsAre404(p)]_vars

====
